---- MODULE Spec2Model ----
(***************************************************************************)
(* borrow_trait: the two capability traits BorrowRef / BorrowRefMut, their *)
(* conformances for the runtime-checked cells (RefCell, AtomicRefCell,     *)
(* cell::RefCell and the reference forms of each) and for the wrappers     *)
(* Rc, Arc, Box (and the reference forms of each), which forward to the    *)
(* inner value with self.as_ref().                                         *)
(*                                                                         *)
(* A container type is a sequence of layers, outermost first: zero or more *)
(* wrapper layers and, last, one cell layer.  Rc<&Box<RefCell<T>>> is      *)
(* << [val,Rc], [ref,Box], [val,RefCell] >>.                               *)
(***************************************************************************)
EXTENDS Integers, Sequences, FiniteSets, TLC

VARIABLES
    features,   \* the cargo features the crate was built with
    handles,    \* live container values: slot -> [cell, kind]
    guards,     \* outstanding guards (Ref / RefMut): slot -> guard
    flag,       \* borrow flag of each cell: 0 unused, n > 0 readers, -1 writer
    value,      \* inner value of each cell: a Cursor [data, pos]
    last,       \* the capability call made by the step just taken, if any
    conflicts,  \* the cells on which a call has panicked so far
    probe       \* dispatch comparison: one type, called next to a bare cell

vars == <<features, handles, guards, flag, value, last, conflicts, probe>>

----------------------------------------------------------------------------
\* Bounds of the model.

\* guards that may be outstanding at once
MaxGuards == 2
\* wrapper layers around a cell
MaxDepth == 2
\* bytes held by a Cursor
DataLen == 2

----------------------------------------------------------------------------
\* Types and configuration.

Features == {"alloc", "atomic_refcell", "cell"}

CellKinds == <<"RefCell", "AtomicRefCell", "cell::RefCell">>

WrapperKinds == {"Rc", "Arc", "Box"}

\* T, &T, &mut T
RefForms == {"val", "ref", "mut"}

\* the cells of a run: a RefCell and an AtomicRefCell
Cells == {1, 2}

FamilyOf(c) == CellKinds[c]

HandleSlots == {1, 2}

GuardSlots == 1..MaxGuards

Threads == {"t1", "t2"}

MainThread == "t1"

WrapperLayers == [form : RefForms, kind : WrapperKinds]

CellLayers == [form : RefForms, kind : {CellKinds[i] : i \in 1..Len(CellKinds)}]

Stacks(d) == UNION {[1..n -> WrapperLayers] : n \in 0..d}

Types == {s \o <<c>> : s \in Stacks(MaxDepth), c \in CellLayers}

\* the optional crate behind a cell family is compiled in
FamilyEnabled(kind, F) ==
    CASE kind = "RefCell" -> TRUE
      [] kind = "AtomicRefCell" -> "atomic_refcell" \in F
      [] kind = "cell::RefCell" -> "cell" \in F

\* cfg attributes of the borrow_ref! invocations
CellConformsRef(kind, F) ==
    CASE kind = "RefCell" -> TRUE
      [] kind = "AtomicRefCell" -> "atomic_refcell" \in F /\ "alloc" \in F
      [] kind = "cell::RefCell" -> "cell" \in F /\ "alloc" \in F

\* cfg attributes of the borrow_ref_mut! invocations
CellConformsMut(kind, F) ==
    CASE kind = "RefCell" -> TRUE
      [] kind = "AtomicRefCell" -> "atomic_refcell" \in F
      [] kind = "cell::RefCell" -> "cell" \in F

\* mod pointers is compiled only with feature alloc
PointersCompiled(F) == "alloc" \in F

RECURSIVE Conforms(_, _, _)
\* the type ty implements the capability cap in a build with features F
Conforms(cap, ty, F) ==
    IF Len(ty) = 1
    THEN IF cap = "BorrowRef" THEN CellConformsRef(ty[1].kind, F)
                              ELSE CellConformsMut(ty[1].kind, F)
    ELSE PointersCompiled(F) /\ Conforms(cap, Tail(ty), F)

----------------------------------------------------------------------------
\* The checked cells' own operations.

RefCell_borrow(b) ==
    IF b >= 0 THEN [ok |-> TRUE, flag |-> b + 1]
              ELSE [ok |-> FALSE, flag |-> b]

RefCell_borrow_mut(b) ==
    IF b = 0 THEN [ok |-> TRUE, flag |-> -1]
             ELSE [ok |-> FALSE, flag |-> b]

AtomicRefCell_borrow(b) ==
    IF b >= 0 THEN [ok |-> TRUE, flag |-> b + 1]
              ELSE [ok |-> FALSE, flag |-> b]

AtomicRefCell_borrow_mut(b) ==
    IF b = 0 THEN [ok |-> TRUE, flag |-> -1]
             ELSE [ok |-> FALSE, flag |-> b]

cell_RefCell_borrow(b) ==
    IF b >= 0 THEN [ok |-> TRUE, flag |-> b + 1]
              ELSE [ok |-> FALSE, flag |-> b]

cell_RefCell_borrow_mut(b) ==
    IF b = 0 THEN [ok |-> TRUE, flag |-> -1]
             ELSE [ok |-> FALSE, flag |-> b]

\* a Ref goes out of scope
Ref_drop(b) == b - 1

\* a RefMut goes out of scope
RefMut_drop(b) == b + 1

----------------------------------------------------------------------------
\* The conformances.  A receiver is p = [ty, cell]: its type and the cell
\* its innermost layer points at; f is the borrow flag of every cell.  The
\* result is [ok, cell, flag, guard]: whether a guard is returned, the cell
\* whose flag was used, that cell's new flag, and the guard type.

\* fault: the shared conformance is bound to the cell's borrow_mut
CellBorrow_asExclusive(p, f) ==
    LET r == RefCell_borrow_mut(f[p.cell])
    IN  [ok |-> r.ok, cell |-> p.cell, flag |-> r.flag,
         guard |-> IF r.ok THEN "Ref" ELSE "None"]

\* fault: the shared conformance hands out a view without asking the cell
CellBorrow_unchecked(p, f) ==
    [ok |-> TRUE, cell |-> p.cell, flag |-> f[p.cell] + 1, guard |-> "Ref"]

\* fault: the shared conformance hands out a guard the cell does not count
CellBorrow_uncounted(p, f) ==
    LET r == RefCell_borrow(f[p.cell])
    IN  [ok |-> r.ok, cell |-> p.cell, flag |-> f[p.cell],
         guard |-> IF r.ok THEN "Ref" ELSE "None"]

\* fault: the conformances of &cell and &mut cell borrow a fresh copy of
\* the cell instead of the cell referred to
CellBorrow_ofCopy(p, f) ==
    LET own == p.ty[1].form = "val"
        r == RefCell_borrow(IF own THEN f[p.cell] ELSE 0)
    IN  [ok |-> r.ok, cell |-> IF own THEN p.cell ELSE 0, flag |-> r.flag,
         guard |-> IF r.ok THEN "Ref" ELSE "None"]

\* borrow_ref!: fn borrow(&'a self) -> Self::Pointer { $body(self) }
CellBorrow(p, f) ==
    LET k == p.ty[1].kind
        r == CASE k = "RefCell" -> RefCell_borrow(f[p.cell])
               [] k = "AtomicRefCell" -> AtomicRefCell_borrow(f[p.cell])
               [] k = "cell::RefCell" -> cell_RefCell_borrow(f[p.cell])
    IN  [ok |-> r.ok, cell |-> p.cell, flag |-> r.flag,
         guard |-> IF r.ok THEN "Ref" ELSE "None"]

\* fault: the exclusive conformance is bound to a lock, which waits for
\* the guards outstanding instead of panicking
CellBorrowMut_waits(p, f) ==
    LET r == RefCell_borrow_mut(f[p.cell])
    IN  [ok |-> r.ok, cell |-> p.cell, flag |-> r.flag,
         guard |-> IF r.ok THEN "RefMut" ELSE "Wait"]

\* fault: the exclusive conformance is bound to the cell's borrow
CellBorrowMut_asShared(p, f) ==
    LET r == RefCell_borrow(f[p.cell])
    IN  [ok |-> r.ok, cell |-> p.cell, flag |-> r.flag,
         guard |-> IF r.ok THEN "RefMut" ELSE "None"]

\* borrow_ref_mut!: fn borrow_mut(&'a self) -> Self::Pointer { $body(self) }
CellBorrowMut(p, f) ==
    LET k == p.ty[1].kind
        r == CASE k = "RefCell" -> RefCell_borrow_mut(f[p.cell])
               [] k = "AtomicRefCell" -> AtomicRefCell_borrow_mut(f[p.cell])
               [] k = "cell::RefCell" -> cell_RefCell_borrow_mut(f[p.cell])
    IN  [ok |-> r.ok, cell |-> p.cell, flag |-> r.flag,
         guard |-> IF r.ok THEN "RefMut" ELSE "None"]

\* fault: the wrapper forwards to another cell than the one it holds
as_ref_other(p) == [ty |-> Tail(p.ty), cell |-> IF p.cell = 1 THEN 2 ELSE 1]

\* self.as_ref(): the inner value of a wrapper, in place
as_ref(p) == [ty |-> Tail(p.ty), cell |-> p.cell]

RECURSIVE BorrowRef_borrow(_, _)
RECURSIVE BorrowRefMut_borrow_mut(_, _)

\* fault: the wrapper's borrow forwards to borrow_mut
PointerBorrow_asBorrowMut(p, f) ==
    [BorrowRefMut_borrow_mut(as_ref(p), f) EXCEPT !.guard = IF @ = "RefMut" THEN "Ref" ELSE @]

\* pointer_trait!: fn borrow(&'a self) { self.as_ref().borrow() }
PointerBorrow(p, f) == BorrowRef_borrow(as_ref(p), f)

\* fault: the wrapper's borrow_mut forwards to borrow
PointerBorrowMut_asBorrow(p, f) ==
    [BorrowRef_borrow(as_ref(p), f) EXCEPT !.guard = IF @ = "Ref" THEN "RefMut" ELSE @]

\* pointer_trait!: fn borrow_mut(&'a self) { self.as_ref().borrow_mut() }
PointerBorrowMut(p, f) == BorrowRefMut_borrow_mut(as_ref(p), f)

\* <Self as BorrowRef>::borrow, resolved by the type of the receiver
BorrowRef_borrow(p, f) ==
    IF Len(p.ty) = 1 THEN CellBorrow(p, f) ELSE PointerBorrow(p, f)

\* <Self as BorrowRefMut>::borrow_mut, resolved by the type of the receiver
BorrowRefMut_borrow_mut(p, f) ==
    IF Len(p.ty) = 1 THEN CellBorrowMut(p, f) ELSE PointerBorrowMut(p, f)

----------------------------------------------------------------------------
\* State.

NoHandle == [cell |-> 0, kind |-> "None"]

NoGuard == [kind |-> "None", cell |-> 0, via |-> 0, thread |-> "none"]

NoCall == [op |-> "none", via |-> 0, cell |-> 0, ok |-> FALSE, read |-> <<>>]

NoProbe == [ty |-> <<>>, cell |-> 0, w |-> 0, d |-> 0, op |-> "none",
            okW |-> FALSE, okD |-> FALSE, cellW |-> 0,
            through |-> "none", heldW |-> 0, heldD |-> 0]

\* Cursor::new(vec![..])
Cursor_new(c) == [data |-> [i \in 1..DataLen |-> 10 * c + i - 1], pos |-> 0]

\* Read::read_to_end on a Cursor: the bytes from pos on
read_to_end(cur) == SubSeq(cur.data, cur.pos + 1, Len(cur.data))

Present(c) == FamilyEnabled(FamilyOf(c), features)

\* the type of a handle: the bare cell, or one wrapper around it
TypeOf(h) ==
    IF h.kind = "Cell"
    THEN <<[form |-> "val", kind |-> FamilyOf(h.cell)]>>
    ELSE <<[form |-> "val", kind |-> h.kind],
           [form |-> "val", kind |-> FamilyOf(h.cell)]>>

Receiver(h) == [ty |-> TypeOf(h), cell |-> h.cell]

SharedOn(c) == {g \in GuardSlots : guards[g].kind = "Ref" /\ guards[g].cell = c}

ExclusiveOn(c) == {g \in GuardSlots : guards[g].kind = "RefMut" /\ guards[g].cell = c}

FreeGuardSlots == {g \in GuardSlots : guards[g] = NoGuard}

FreeHandleSlots == {i \in HandleSlots : handles[i] = NoHandle}

Min(S) == CHOOSE x \in S : \A y \in S : x <= y

\* a build with every feature enabled; nothing borrowed, no handle made yet
Init ==
    /\ features = Features
    /\ handles = [i \in HandleSlots |-> NoHandle]
    /\ guards = [g \in GuardSlots |-> NoGuard]
    /\ flag = [c \in Cells |-> 0]
    /\ value = [c \in Cells |-> Cursor_new(c)]
    /\ last = NoCall
    /\ conflicts = {}
    /\ probe = NoProbe

----------------------------------------------------------------------------
\* Operations.  t is the calling thread, i a handle slot, g a guard slot.

\* RefCell and Rc are not Sync/Send: only an AtomicRefCell, bare or behind
\* Arc or Box, is reachable from a second thread
Reachable(t, h) ==
    t = MainThread \/ (FamilyOf(h.cell) = "AtomicRefCell" /\ h.kind # "Rc")

\* the call is over within its step: it came back with a guard, or it
\* panicked; it is not waiting for a guard to be released
Returns(r) == r.guard \in {"Ref", "RefMut", "None"}

\* what a call through handle i did: op, whether a guard came back (FALSE:
\* the call panicked), and the bytes read
CallRecord(op, i, ok, rd) ==
    [op |-> op, via |-> i, cell |-> handles[i].cell, ok |-> ok, read |-> rd]

\* a panic is remembered for the cell the handle stands for
Panicked(i, ok) == IF ok THEN conflicts ELSE conflicts \cup {handles[i].cell}

\* RefCell::new(..), Rc::new(..), Box::new(..), or a reference to a cell
NewHandle(i, c, k) ==
    /\ FreeHandleSlots # {}
    /\ i = Min(FreeHandleSlots)
    /\ Present(c)
    /\ k \in {"Cell"} \cup WrapperKinds
    /\ k # "Cell" =>
         \A j \in HandleSlots : handles[j].cell = c => handles[j].kind = "Cell"
    /\ handles' = [handles EXCEPT ![i] = [cell |-> c, kind |-> k]]
    /\ last' = NoCall
    /\ UNCHANGED <<features, guards, flag, value, conflicts, probe>>

\* value.clone() of an Rc or Arc: a second handle on the same cell
CloneTarget(h) == h.cell

CloneHandle(i, j) ==
    /\ handles[i].kind \in {"Rc", "Arc"}
    /\ FreeHandleSlots # {}
    /\ j = Min(FreeHandleSlots)
    /\ handles' = [handles EXCEPT ![j] = [cell |-> CloneTarget(handles[i]),
                                          kind |-> handles[i].kind]]
    /\ last' = NoCall
    /\ UNCHANGED <<features, guards, flag, value, conflicts, probe>>

\* fault: the guard type does not carry the lifetime of the borrow of self
Borrowed_untracked(i) == FALSE

\* fn borrow(&'a self) -> Ref<'a, T>: handle i stays borrowed for as long as
\* a guard obtained through it lives
Borrowed(i) == \E g \in GuardSlots : guards[g] # NoGuard /\ guards[g].via = i

\* a handle goes out of scope; the guards borrowed from it ended before
DropHandle(i) ==
    /\ handles[i] # NoHandle
    /\ ~Borrowed(i)
    /\ handles' = [handles EXCEPT ![i] = NoHandle]
    /\ last' = NoCall
    /\ UNCHANGED <<features, guards, flag, value, conflicts, probe>>

\* value.borrow()
Borrow(t, i) ==
    /\ handles[i] # NoHandle
    /\ Reachable(t, handles[i])
    /\ LET p == Receiver(handles[i])
           r == BorrowRef_borrow(p, flag)
       IN  /\ Conforms("BorrowRef", p.ty, features)
           /\ Returns(r)
           /\ r.ok => FreeGuardSlots # {}
           /\ flag' = [flag EXCEPT ![r.cell] = r.flag]
           /\ guards' = IF r.ok
                        THEN [guards EXCEPT ![Min(FreeGuardSlots)] =
                                [kind |-> r.guard, cell |-> r.cell,
                                 via |-> i, thread |-> t]]
                        ELSE guards
           /\ last' = CallRecord("borrow", i, r.ok, <<>>)
           /\ conflicts' = Panicked(i, r.ok)
    /\ UNCHANGED <<features, handles, value, probe>>

\* value.borrow_mut()
BorrowMut(t, i) ==
    /\ handles[i] # NoHandle
    /\ Reachable(t, handles[i])
    /\ LET p == Receiver(handles[i])
           r == BorrowRefMut_borrow_mut(p, flag)
       IN  /\ Conforms("BorrowRefMut", p.ty, features)
           /\ Returns(r)
           /\ r.ok => FreeGuardSlots # {}
           /\ flag' = [flag EXCEPT ![r.cell] = r.flag]
           /\ guards' = IF r.ok
                        THEN [guards EXCEPT ![Min(FreeGuardSlots)] =
                                [kind |-> r.guard, cell |-> r.cell,
                                 via |-> i, thread |-> t]]
                        ELSE guards
           /\ last' = CallRecord("borrow_mut", i, r.ok, <<>>)
           /\ conflicts' = Panicked(i, r.ok)
    /\ UNCHANGED <<features, handles, value, probe>>

\* a guard goes out of scope
DropGuard(t, g) ==
    /\ guards[g] # NoGuard
    /\ guards[g].thread = t
    /\ flag' = [flag EXCEPT ![guards[g].cell] =
                  IF guards[g].kind = "Ref" THEN Ref_drop(@) ELSE RefMut_drop(@)]
    /\ guards' = [guards EXCEPT ![g] = NoGuard]
    /\ last' = NoCall
    /\ UNCHANGED <<features, handles, value, conflicts, probe>>

\* fault: the Pointer of BorrowRef is writable as well
Pointer_DerefMut_any(kind) == kind \in {"Ref", "RefMut"}

\* BorrowRefMut::Pointer: DerefMut, BorrowRef::Pointer: Deref only
Pointer_DerefMut(kind) == kind = "RefMut"

\* value.borrow().deref(): the inner value is looked at through a guard
Deref(t, g) ==
    /\ guards[g] # NoGuard
    /\ guards[g].thread = t
    /\ last' = CallRecord("deref", guards[g].via, TRUE, value[guards[g].cell].data)
    /\ UNCHANGED <<features, handles, guards, flag, value, conflicts, probe>>

\* guard.read_to_end(&mut result) through an outstanding RefMut
ReadToEnd(t, g) ==
    /\ guards[g] # NoGuard
    /\ Pointer_DerefMut(guards[g].kind)
    /\ guards[g].thread = t
    /\ LET c == guards[g].cell
       IN  /\ value' = [value EXCEPT ![c].pos = Len(value[c].data)]
           /\ last' = CallRecord("read_to_end", guards[g].via, TRUE,
                                   read_to_end(value[c]))
    /\ UNCHANGED <<features, handles, guards, flag, conflicts, probe>>

\* fault: the temporary guard of takes_bound is leaked
TemporaryDropped_leaked(b) == b

\* the temporary RefMut of takes_bound is dropped at the end of its statement
TemporaryDropped(b) == RefMut_drop(b)

\* takes_bound(&value): value.borrow_mut().read_to_end(&mut result)
TakesBound(t, i) ==
    /\ handles[i] # NoHandle
    /\ Reachable(t, handles[i])
    /\ LET p == Receiver(handles[i])
           r == BorrowRefMut_borrow_mut(p, flag)
       IN  /\ Conforms("BorrowRefMut", p.ty, features)
           /\ Returns(r)
           /\ conflicts' = Panicked(i, r.ok)
           /\ IF r.ok
              THEN /\ value' = [value EXCEPT ![r.cell].pos = Len(value[r.cell].data)]
                   /\ flag' = [flag EXCEPT ![r.cell] = TemporaryDropped(r.flag)]
                   /\ last' = CallRecord("takes_bound", i, TRUE,
                                         read_to_end(value[r.cell]))
              ELSE /\ UNCHANGED <<value, flag>>
                   /\ last' = CallRecord("takes_bound", i, FALSE, <<>>)
    /\ UNCHANGED <<features, handles, guards, probe>>

Step(t) ==
    \/ \E i \in HandleSlots, c \in Cells, k \in {"Cell"} \cup WrapperKinds :
         t = MainThread /\ NewHandle(i, c, k)
    \/ \E i, j \in HandleSlots : t = MainThread /\ CloneHandle(i, j)
    \/ \E i \in HandleSlots : t = MainThread /\ DropHandle(i)
    \/ \E i \in HandleSlots : Borrow(t, i)
    \/ \E i \in HandleSlots : BorrowMut(t, i)
    \/ \E g \in GuardSlots : DropGuard(t, g)
    \/ \E g \in GuardSlots : Deref(t, g)
    \/ \E g \in GuardSlots : ReadToEnd(t, g)
    \/ \E i \in HandleSlots : TakesBound(t, i)

\* a single-threaded program
Next == Step(MainThread)

Spec == Init /\ [][Next]_vars

\* several threads sharing thread-safe cells: every handle is an
\* AtomicRefCell, bare or behind Arc or Box, made and dropped by the main
\* thread and used by all
ThreadStep(t) ==
    \/ \E i \in HandleSlots, c \in Cells, k \in {"Cell", "Arc", "Box"} :
         /\ t = MainThread
         /\ FamilyOf(c) = "AtomicRefCell"
         /\ NewHandle(i, c, k)
    \/ \E i, j \in HandleSlots : t = MainThread /\ CloneHandle(i, j)
    \/ \E i \in HandleSlots : t = MainThread /\ DropHandle(i)
    \/ \E i \in HandleSlots : Borrow(t, i)
    \/ \E i \in HandleSlots : BorrowMut(t, i)
    \/ \E g \in GuardSlots : DropGuard(t, g)
    \/ \E g \in GuardSlots : Deref(t, g)
    \/ \E g \in GuardSlots : ReadToEnd(t, g)
    \/ \E i \in HandleSlots : TakesBound(t, i)

NextThreads == \E t \in Threads : ThreadStep(t)

SpecThreads == Init /\ [][NextThreads]_vars

----------------------------------------------------------------------------
\* Dispatch compared: one container type ty, in a build with any set of
\* features, is borrowed next to a bare cell of the same family.  probe.w
\* is the flag of the cell behind ty, probe.d the flag of the bare cell.

FamilyIndex(kind) == CHOOSE i \in 1..Len(CellKinds) : CellKinds[i] = kind

InnermostKind(ty) == ty[Len(ty)].kind

\* the innermost cell's own type
BareType(ty) == <<[form |-> "val", kind |-> InnermostKind(ty)]>>

FlagsWith(c, b) == [x \in 1..Len(CellKinds) |-> IF x = c THEN b ELSE 0]

InitDispatch ==
    /\ features \in SUBSET Features
    /\ handles = [i \in HandleSlots |-> NoHandle]
    /\ guards = [g \in GuardSlots |-> NoGuard]
    /\ flag = [c \in Cells |-> 0]
    /\ value = [c \in Cells |-> Cursor_new(c)]
    /\ last = NoCall
    /\ conflicts = {}
    /\ \E ty \in Types :
         probe = [NoProbe EXCEPT !.ty = ty, !.cell = FamilyIndex(InnermostKind(ty))]

\* the call made through ty and the same call made on the bare cell
ProbeStep(op, rw, rd) ==
    /\ (rw.ok \/ rd.ok) => (probe.w < MaxGuards /\ probe.d < MaxGuards)
    /\ probe' = [probe EXCEPT !.op = op,
                              !.w = IF rw.cell = probe.cell THEN rw.flag ELSE @,
                              !.d = rd.flag,
                              !.okW = rw.ok, !.okD = rd.ok,
                              !.cellW = rw.cell]

ProbeBorrow ==
    /\ Conforms("BorrowRef", probe.ty, features)
    /\ ProbeStep("borrow",
                 BorrowRef_borrow([ty |-> probe.ty, cell |-> probe.cell],
                                  FlagsWith(probe.cell, probe.w)),
                 BorrowRef_borrow([ty |-> BareType(probe.ty), cell |-> probe.cell],
                                  FlagsWith(probe.cell, probe.d)))
    /\ UNCHANGED <<features, handles, guards, flag, value, last, conflicts>>

ProbeBorrowMut ==
    /\ Conforms("BorrowRefMut", probe.ty, features)
    /\ ProbeStep("borrow_mut",
                 BorrowRefMut_borrow_mut([ty |-> probe.ty, cell |-> probe.cell],
                                         FlagsWith(probe.cell, probe.w)),
                 BorrowRefMut_borrow_mut([ty |-> BareType(probe.ty), cell |-> probe.cell],
                                         FlagsWith(probe.cell, probe.d)))
    /\ UNCHANGED <<features, handles, guards, flag, value, last, conflicts>>

\* the newest guard of a cell with flag b goes out of scope
DropOne(b) == IF b > 0 THEN Ref_drop(b) ELSE IF b < 0 THEN RefMut_drop(b) ELSE b

ProbeDrop ==
    /\ probe.w # 0 \/ probe.d # 0
    /\ probe' = [probe EXCEPT !.op = "drop", !.w = DropOne(@), !.d = DropOne(@),
                              !.okW = TRUE, !.okD = TRUE, !.cellW = probe.cell]
    /\ UNCHANGED <<features, handles, guards, flag, value, last, conflicts>>

NextDispatch == ProbeBorrow \/ ProbeBorrowMut \/ ProbeDrop

SpecDispatch == InitDispatch /\ [][NextDispatch]_vars

----------------------------------------------------------------------------
\* One cell, borrowed now through a reference to it (&cell, &mut cell) and
\* now directly.  probe.w is the cell's flag, probe.heldW and probe.heldD
\* count the guards outstanding that were obtained through the reference
\* and through the cell itself.

\* &'a $t and &'a mut $t of the borrow_ref! / borrow_ref_mut! invocations
ReferenceTypes == {<<c>> : c \in {l \in CellLayers : l.form # "val"}}

Origins == {"ty", "cell"}

\* the type a call is made through
OriginType(o) == IF o = "ty" THEN probe.ty ELSE BareType(probe.ty)

InitAlias ==
    /\ features \in SUBSET Features
    /\ handles = [i \in HandleSlots |-> NoHandle]
    /\ guards = [g \in GuardSlots |-> NoGuard]
    /\ flag = [c \in Cells |-> 0]
    /\ value = [c \in Cells |-> Cursor_new(c)]
    /\ last = NoCall
    /\ conflicts = {}
    /\ \E ty \in ReferenceTypes :
         probe = [NoProbe EXCEPT !.ty = ty, !.cell = FamilyIndex(InnermostKind(ty))]

\* a call made through origin o came back with r
AliasCall(op, o, r) ==
    /\ r.ok => probe.heldW + probe.heldD < MaxGuards
    /\ probe' = [probe EXCEPT !.op = op, !.through = o,
                              !.w = IF r.cell = probe.cell THEN r.flag ELSE @,
                              !.okW = r.ok, !.cellW = r.cell,
                              !.heldW = IF r.ok /\ o = "ty" THEN @ + 1 ELSE @,
                              !.heldD = IF r.ok /\ o = "cell" THEN @ + 1 ELSE @]

AliasBorrow ==
    /\ \E o \in Origins :
         /\ Conforms("BorrowRef", OriginType(o), features)
         /\ AliasCall("borrow", o,
                      BorrowRef_borrow([ty |-> OriginType(o), cell |-> probe.cell],
                                       FlagsWith(probe.cell, probe.w)))
    /\ UNCHANGED <<features, handles, guards, flag, value, last, conflicts>>

AliasBorrowMut ==
    /\ \E o \in Origins :
         /\ Conforms("BorrowRefMut", OriginType(o), features)
         /\ AliasCall("borrow_mut", o,
                      BorrowRefMut_borrow_mut([ty |-> OriginType(o), cell |-> probe.cell],
                                              FlagsWith(probe.cell, probe.w)))
    /\ UNCHANGED <<features, handles, guards, flag, value, last, conflicts>>

\* a guard obtained through origin o goes out of scope
AliasDrop ==
    /\ \E o \in Origins :
         /\ IF o = "ty" THEN probe.heldW > 0 ELSE probe.heldD > 0
         /\ probe' = [probe EXCEPT !.op = "drop", !.through = o,
                                   !.w = DropOne(@), !.okW = TRUE,
                                   !.cellW = probe.cell,
                                   !.heldW = IF o = "ty" THEN @ - 1 ELSE @,
                                   !.heldD = IF o = "cell" THEN @ - 1 ELSE @]
    /\ UNCHANGED <<features, handles, guards, flag, value, last, conflicts>>

NextAlias == AliasBorrow \/ AliasBorrowMut \/ AliasDrop

SpecAlias == InitAlias /\ [][NextAlias]_vars

----------------------------------------------------------------------------
\* Properties.

Calls == {"borrow", "borrow_mut", "takes_bound"}

\* the guards outstanding on the container that cell c is, whichever handle
\* they were taken through
ThroughIn(gs, hs, c) ==
    {g \in GuardSlots : gs[g] # NoGuard /\ hs[gs[g].via].cell = c}

Through(c) == ThroughIn(guards, handles, c)

SharedThrough(c) == {g \in Through(c) : guards[g].kind = "Ref"}

ExclusiveThrough(c) == {g \in Through(c) : guards[g].kind = "RefMut"}

\* handles i and j are clones of one Rc or Arc
IsClone(i, j) ==
    /\ i # j
    /\ handles[i].kind \in {"Rc", "Arc"}
    /\ handles[j] = handles[i]

\* C1: whatever borrow, borrow_mut and guard drops were made, and through
\* whichever handles, a container has at most one exclusive guard outstanding.
C1_AtMostOneExclusive ==
    \A c \in Cells : Cardinality(ExclusiveThrough(c)) <= 1

\* an exclusive guard is out, and a second borrow_mut through a wrapper was
\* just refused
C1_Witness ==
    /\ last.op = "borrow_mut" /\ ~last.ok
    /\ handles[last.via].kind \in WrapperKinds
    /\ Cardinality(ExclusiveThrough(last.cell)) = 1

\* C2: a container never has an exclusive guard and a shared guard
\* outstanding together, and the guards of both capabilities are counted in
\* the access state of the one cell the container is.
C2_SharedExcludesExclusive ==
    \A c \in Cells :
        /\ SharedThrough(c) = {} \/ ExclusiveThrough(c) = {}
        /\ \A g \in Through(c) : guards[g].cell = c
        /\ ExclusiveThrough(c) # {} => flag[c] < 0
        /\ SharedThrough(c) # {} => flag[c] > 0

\* a shared guard is out and borrow_mut was just refused
C2_Witness ==
    /\ last.op = "borrow_mut" /\ ~last.ok
    /\ SharedThrough(last.cell) # {}
    /\ ExclusiveThrough(last.cell) = {}

\* C3: borrow_mut with any guard outstanding, and borrow with an exclusive
\* guard outstanding, panic at that call: no guard comes back and the guards,
\* the access state and the inner value are as they were before the call.
C3_ConflictPanicsAtTheCall ==
    [][ /\ ( /\ last'.op \in {"borrow_mut", "takes_bound"}
             /\ Through(last'.cell) # {} )
           => (~last'.ok /\ guards' = guards /\ flag' = flag /\ value' = value)
        /\ ( /\ last'.op = "borrow"
             /\ ExclusiveThrough(last'.cell) # {} )
           => (~last'.ok /\ guards' = guards /\ flag' = flag /\ value' = value)
      ]_vars

\* two shared guards are out, still out after borrow_mut was refused
C3_Witness ==
    /\ last.op = "borrow_mut" /\ ~last.ok
    /\ Cardinality(SharedThrough(last.cell)) >= 2

\* C4: a call through a type of any wrappers, of any forms and to any depth,
\* succeeds or panics as the same call on the bare innermost cell does, uses
\* that cell's flag and leaves it as the bare call leaves it.
C4_WrappersAreTransparent ==
    probe.op # "none" =>
        /\ probe.okW = probe.okD
        /\ probe.w = probe.d
        /\ probe.cellW = probe.cell

\* borrow_mut through a reference to a wrapper of a wrapper was refused
\* because a shared guard is out
C4_Witness ==
    /\ Len(probe.ty) >= 3
    /\ probe.ty[1].form = "ref"
    /\ probe.op = "borrow_mut" /\ ~probe.okW
    /\ probe.w > 0

\* C5: a call through one clone of an Rc or Arc, made while a guard taken
\* through another clone is outstanding, succeeds only if it is a borrow
\* meeting a shared guard, as it would through the same handle.
C5_ClonesShareOneState ==
    \A g \in GuardSlots :
        ( /\ last.op \in Calls
          /\ guards[g] # NoGuard
          /\ IsClone(guards[g].via, last.via) )
        => (last.ok <=> (last.op = "borrow" /\ guards[g].kind = "Ref"))

\* borrow_mut through one clone was refused while the other clone's
\* exclusive guard is out
C5_Witness ==
    /\ last.op = "borrow_mut" /\ ~last.ok
    /\ \E g \in GuardSlots :
         /\ guards[g].kind = "RefMut"
         /\ IsClone(guards[g].via, last.via)

\* C6: a container with no guard outstanding is Free: its flag is 0 and
\* borrow_mut through any of its handles returns a guard; a borrow_mut that
\* panics had a guard outstanding.  Earlier panics change nothing of this.
C6_FreeAgainAfterRelease ==
    /\ \A c \in Cells : Through(c) = {} =>
         /\ flag[c] = 0
         /\ \A i \in HandleSlots : handles[i].cell = c =>
              BorrowRefMut_borrow_mut(Receiver(handles[i]), flag).ok
    /\ (last.op \in {"borrow_mut", "takes_bound"} /\ ~last.ok)
         => Through(last.cell) # {}

\* borrow_mut succeeded on a container on which a call had panicked before
C6_Witness ==
    /\ last.op = "borrow_mut" /\ last.ok
    /\ last.cell \in conflicts
    /\ Cardinality(Through(last.cell)) = 1

\* C7: borrow with no exclusive guard outstanding returns a guard, whatever
\* the number of shared guards, and leaves one shared guard more; the shared
\* guards of a container all view that container's inner value.
C7_SharedBorrowsCoexist ==
    [][ LET c == last'.cell
            before == {g \in Through(c) : guards[g].kind = "Ref"}
            after == {g \in ThroughIn(guards', handles', c) : guards'[g].kind = "Ref"}
        IN  /\ (last'.op = "borrow" /\ ExclusiveThrough(c) = {})
                 => (last'.ok /\ Cardinality(after) = Cardinality(before) + 1)
            /\ \A g \in after : value'[guards'[g].cell] = value'[c]
      ]_vars

\* a second shared guard was just returned
C7_Witness ==
    /\ last.op = "borrow" /\ last.ok
    /\ Cardinality(SharedThrough(last.cell)) >= 2

\* C8: an exclusive guard points at the inner value of the cell its handle
\* stands for; reading to the end through it returns that cell's bytes from
\* the cursor on, all of them for a fresh cell, through a bare cell and
\* through a wrapper alike.
C8_ExclusiveGuardReadsTheCell ==
    [][ LET c == last'.cell
        IN  /\ (last'.op \in {"read_to_end", "takes_bound"} /\ last'.ok)
                 => /\ last'.read = read_to_end(value[c])
                    /\ value[c].pos = 0 => last'.read = Cursor_new(c).data
                    /\ value'[c].pos = Len(value[c].data)
            /\ \A g \in GuardSlots : guards'[g].kind = "RefMut"
                 => guards'[g].cell = handles'[guards'[g].via].cell
      ]_vars

\* takes_bound through an Rc returned all the bytes of the cell
C8_Witness ==
    /\ last.op = "takes_bound" /\ last.ok
    /\ handles[last.via].kind = "Rc"
    /\ last.read = Cursor_new(last.cell).data
    /\ last.read # <<>>

\* C9: in every build, each cell family whose feature is enabled implements
\* BorrowRef and BorrowRefMut for the cell, its reference and its mutable
\* reference, with or without feature alloc.
C9_EnabledFamilyHasBothCapabilities ==
    \A i \in 1..Len(CellKinds) :
        FamilyEnabled(CellKinds[i], features) =>
            \A fm \in RefForms, cap \in {"BorrowRef", "BorrowRefMut"} :
                Conforms(cap, <<[form |-> fm, kind |-> CellKinds[i]]>>, features)

\* C10: with several threads calling and dropping in any order, two guards
\* outstanding together on an AtomicRefCell, bare or behind an Arc, are both
\* shared guards.
C10_ThreadsNeverShareExclusive ==
    \A g1, g2 \in GuardSlots :
        ( /\ g1 # g2
          /\ guards[g1] # NoGuard /\ guards[g2] # NoGuard
          /\ handles[guards[g1].via].cell = handles[guards[g2].via].cell
          /\ FamilyOf(handles[guards[g1].via].cell) = "AtomicRefCell" )
        => (guards[g1].kind = "Ref" /\ guards[g2].kind = "Ref")

\* two threads hold shared guards taken through Arc clones, and borrow_mut
\* was just refused
C10_Witness ==
    /\ last.op = "borrow_mut" /\ ~last.ok
    /\ \E g1, g2 \in GuardSlots :
         /\ guards[g1].kind = "Ref" /\ guards[g2].kind = "Ref"
         /\ guards[g1].thread # guards[g2].thread
         /\ handles[guards[g1].via].kind = "Arc"
         /\ IsClone(guards[g1].via, guards[g2].via)

\* C11: a call never waits.  In every state, borrow and borrow_mut through
\* every live handle can be taken as one step (a returned guard needs a free
\* guard slot of the model), also while guards that conflict with it are
\* outstanding; the step ends with a guard or with a panic.
C11_CallsNeverWait ==
    /\ \A i \in HandleSlots : handles[i] # NoHandle =>
         LET p == Receiver(handles[i])
             rb == BorrowRef_borrow(p, flag)
             rm == BorrowRefMut_borrow_mut(p, flag)
         IN  /\ (Conforms("BorrowRef", p.ty, features)
                   /\ (rb.ok => FreeGuardSlots # {}))
                  => ENABLED Borrow(MainThread, i)
             /\ (Conforms("BorrowRefMut", p.ty, features)
                   /\ (rm.ok => FreeGuardSlots # {}))
                  => (ENABLED BorrowMut(MainThread, i)
                      /\ ENABLED TakesBound(MainThread, i))
    /\ (last.op \in Calls /\ ~last.ok) => last.cell \in conflicts

\* borrow was just refused because of an exclusive guard, which is still
\* out, and borrow_mut through the same handle can be called at once
C11_Witness ==
    /\ last.op = "borrow" /\ ~last.ok
    /\ ExclusiveThrough(last.cell) # {}
    /\ ENABLED BorrowMut(MainThread, last.via)

\* C12: borrowing through &cell or &mut cell works on the access state of
\* the cell itself.  A call through the reference acts on the cell referred
\* to; the guards obtained through the reference and those obtained through
\* the cell directly are counted in one flag; and a call is granted or
\* refused by that common count, whichever way the guards were obtained.
C12_ReferencesShareTheCellState ==
    LET held == probe.heldW + probe.heldD
    IN  /\ probe.op # "none" => probe.cellW = probe.cell
        /\ probe.w >= 0 => probe.w = held
        /\ probe.w < 0 => (probe.w = -1 /\ held = 1)
        /\ (probe.op = "borrow" /\ probe.okW) => (probe.w = held /\ held >= 1)
        /\ (probe.op = "borrow" /\ ~probe.okW) => (probe.w = -1 /\ held = 1)
        /\ (probe.op = "borrow_mut" /\ probe.okW) => (probe.w = -1 /\ held = 1)
        /\ (probe.op = "borrow_mut" /\ ~probe.okW) => held >= 1

\* borrow_mut on the cell itself was refused because of the one guard
\* outstanding, a shared guard obtained through &mut cell
C12_Witness ==
    /\ probe.ty[1].form = "mut"
    /\ probe.op = "borrow_mut" /\ probe.through = "cell" /\ ~probe.okW
    /\ probe.heldW = 1 /\ probe.heldD = 0 /\ probe.w = 1

AccessState(b) ==
    IF b = 0 THEN <<"Free", 0>>
    ELSE IF b > 0 THEN <<"Shared", b>>
    ELSE IF b = -1 THEN <<"Exclusive", 1>>
    ELSE <<"Invalid", b>>

\* the access state that the live guards gs amount to
GuardsState(gs) ==
    LET sh == {g \in gs : guards[g].kind = "Ref"}
        ex == {g \in gs : guards[g].kind = "RefMut"}
    IN  IF gs = {} THEN <<"Free", 0>>
        ELSE IF ex = {} THEN <<"Shared", Cardinality(sh)>>
        ELSE IF sh = {} /\ Cardinality(ex) = 1 THEN <<"Exclusive", 1>>
        ELSE <<"Invalid", Cardinality(gs)>>

\* C14: the access state of a cell always equals the live guards on it: Free
\* with no guard, Shared(n) with n >= 1 shared guards, Exclusive with one
\* exclusive guard, whichever handles the guards were obtained through; and
\* a step that drops a shared guard takes Shared(1) to Free and Shared(n > 1)
\* to Shared(n - 1), a step that drops the exclusive guard takes Exclusive to
\* Free.
C14_StateEqualsLiveGuards ==
    /\ [](\A c \in Cells :
            /\ AccessState(flag[c]) = GuardsState(Through(c))
            /\ Through(c) = SharedOn(c) \cup ExclusiveOn(c))
    /\ [][\A g \in GuardSlots : (guards[g] # NoGuard /\ guards'[g] = NoGuard) =>
            LET c == guards[g].cell
            IN  IF guards[g].kind = "Ref"
                THEN /\ AccessState(flag[c])[1] = "Shared"
                     /\ AccessState(flag'[c]) =
                          IF flag[c] = 1 THEN <<"Free", 0>>
                                         ELSE <<"Shared", flag[c] - 1>>
                ELSE /\ AccessState(flag[c]) = <<"Exclusive", 1>>
                     /\ AccessState(flag'[c]) = <<"Free", 0>>]_vars

\* one cell is Shared(2) by two guards obtained through two different
\* handles, the other cell is free
C14_Witness ==
    \E c \in Cells :
       /\ flag[c] = 2
       /\ Cardinality(SharedThrough(c)) = 2
       /\ \E g, h \in SharedThrough(c) : guards[g].via # guards[h].via
       /\ \A x \in Cells \ {c} : flag[x] = 0 /\ Through(x) = {}

\* the call op made on the bare cell of handle h, without any wrapper
DirectCall(op, h, f) ==
    LET p == [ty |-> <<[form |-> "val", kind |-> FamilyOf(h.cell)]>>, cell |-> h.cell]
    IN  IF op = "borrow" THEN CellBorrow(p, f) ELSE CellBorrowMut(p, f)

\* C15: a wrapper holds no access state of its own.  A step that makes,
\* clones or drops a handle leaves every flag, guard and value as it was.  A
\* borrow or borrow_mut step through a Rc, Arc or Box handle does what the
\* same call on the cell inside does and nothing else: it is granted or
\* refused as that call is, the flag of that cell becomes what that call
\* makes it, at most the one guard it returns is new, and the other cells,
\* the values and the handles are unchanged.
C15_WrapperHoldsNoState ==
    [][/\ handles' # handles =>
            (flag' = flag /\ guards' = guards /\ value' = value
               /\ conflicts' = conflicts)
       /\ (last'.op \in {"borrow", "borrow_mut"}
             /\ handles[last'.via].kind \in WrapperKinds) =>
            LET h == handles[last'.via]
                d == DirectCall(last'.op, h, flag)
                new == {g \in GuardSlots : guards'[g] # guards[g]}
            IN  /\ last'.ok = d.ok
                /\ last'.cell = h.cell
                /\ flag' = [flag EXCEPT ![h.cell] = d.flag]
                /\ handles' = handles /\ value' = value
                /\ Cardinality(new) = IF d.ok THEN 1 ELSE 0
                /\ \A g \in new : /\ guards[g] = NoGuard
                                  /\ guards'[g].kind = d.guard
                                  /\ guards'[g].cell = h.cell
                                  /\ guards'[g].via = last'.via]_vars

\* borrow through an Arc handle was granted while a guard obtained through
\* its clone is out: the cell counts both, the other cell is untouched
C15_Witness ==
    /\ last.op = "borrow" /\ last.ok
    /\ handles[last.via].kind = "Arc"
    /\ \E j \in HandleSlots :
          /\ IsClone(last.via, j)
          /\ \E g, h \in SharedThrough(last.cell) :
                guards[g].via = last.via /\ guards[h].via = j
    /\ flag[last.cell] = 2
    /\ \A x \in Cells \ {last.cell} : flag[x] = 0

====
